---- MODULE Spec2Model ----
(***************************************************************************)
(* Model of the sqinch analysis pipeline (src/app/utils/sqinchProcessor.ts) *)
(* and of the page that runs it (src/app/page.tsx).                        *)
(*                                                                         *)
(* A run of processFullAnalysis is a state machine: the parsed record sets *)
(* are the initial state and every call made inside the try block is one   *)
(* action.  JavaScript numbers are modelled as exact rationals extended    *)
(* with NaN and the two infinities, so that a division by zero produces    *)
(* what the build produces.  Strings that are sorted, joined and split are *)
(* sequences of UTF-16 code units.                                         *)
(***************************************************************************)
EXTENDS Integers, Sequences, FiniteSets, TLC

VARIABLES pc, productData, customerData, productMetrics, enrichedProducts,
          segmentAnalysis, affinityAnalysis, customerProfiles,
          insightSummaries, result

\* the state of the page (src/app/page.tsx): the six useState cells, the
\* runs of handleAnalysis and the tab changes so far, the narrative calls in
\* flight and the number of calls issued so far
VARIABLES results, loading, tabInsights, activeTab, error, showHelp,
          runs, tabChanges, requests, issued

pipelineVars == <<pc, productData, customerData, productMetrics,
                  enrichedProducts, segmentAnalysis, affinityAnalysis,
                  customerProfiles, insightSummaries, result>>

pageVars == <<results, loading, tabInsights, activeTab, error, showHelp,
              runs, tabChanges, requests, issued>>

vars == <<pipelineVars, pageVars>>

(***************************************************************************)
(* Bounds of the model.                                                    *)
(***************************************************************************)
MaxProducts == 2

MaxPurchases == 3

MaxSegmentRows == 3

MaxProfileRows == 3

MaxRuns == 2

MaxTabChanges == 1

(***************************************************************************)
(* JavaScript numbers.                                                     *)
(***************************************************************************)
RECURSIVE GCD(_, _)
GCD(a, b) == IF b = 0 THEN a ELSE GCD(b, a % b)

Abs(i) == IF i < 0 THEN 0 - i ELSE i

NaN == [k |-> "nan", n |-> 0, d |-> 1]

Inf(s) == [k |-> "inf", n |-> s, d |-> 1]

Sign(i) == IF i < 0 THEN 0 - 1 ELSE 1

\* the finite number n/d (d # 0), in lowest terms with a positive denominator
Fin(n, d) ==
    LET g == GCD(Abs(n), Abs(d))
    IN  [k |-> "fin", n |-> Sign(d) * (n \div g), d |-> Abs(d) \div g]

Num(i) == [k |-> "fin", n |-> i, d |-> 1]

IsFinite(x) == x.k = "fin"

\* x + y
NAdd(x, y) ==
    IF x.k = "nan" \/ y.k = "nan" THEN NaN
    ELSE IF x.k = "inf" /\ y.k = "inf" THEN (IF x.n = y.n THEN x ELSE NaN)
    ELSE IF x.k = "inf" THEN x
    ELSE IF y.k = "inf" THEN y
    ELSE Fin(x.n * y.d + y.n * x.d, x.d * y.d)

\* x * y
NMul(x, y) ==
    IF x.k = "nan" \/ y.k = "nan" THEN NaN
    ELSE IF x.k = "inf" \/ y.k = "inf"
         THEN (IF x.n = 0 \/ y.n = 0 THEN NaN ELSE Inf(Sign(x.n) * Sign(y.n)))
    ELSE Fin(x.n * y.n, x.d * y.d)

\* x / y; a zero is +0, the inputs of the model being non-negative
NDiv(x, y) ==
    IF x.k = "nan" \/ y.k = "nan" THEN NaN
    ELSE IF x.k = "inf" THEN (IF y.k = "inf" THEN NaN ELSE Inf(x.n * Sign(y.n)))
    ELSE IF y.k = "inf" THEN Num(0)
    ELSE IF y.n = 0 THEN (IF x.n = 0 THEN NaN ELSE Inf(Sign(x.n)))
    ELSE Fin(x.n * y.d, x.d * y.n)

\* Math.round: the nearest integer, a half going up
MathRound(x) == IF x.k = "fin" THEN Num((2 * x.n + x.d) \div (2 * x.d)) ELSE x

\* Math.round(x * 10) / 10
Round1(x) == NDiv(MathRound(NMul(x, Num(10))), Num(10))

\* the rounding of revenue per area with one decimal kept instead of two
Round2ToOneDecimal(x) == NDiv(MathRound(NMul(x, Num(10))), Num(10))

\* Math.round(x * 100) / 100
Round2(x) == NDiv(MathRound(NMul(x, Num(100))), Num(100))

\* x > y of two numbers (false when either is NaN)
NGt(x, y) ==
    IF x.k = "nan" \/ y.k = "nan" THEN FALSE
    ELSE IF x.k = "inf" THEN (x.n = 1 /\ ~(y.k = "inf" /\ y.n = 1))
    ELSE IF y.k = "inf" THEN y.n = 0 - 1
    ELSE x.n * y.d > y.n * x.d

(***************************************************************************)
(* lodash helpers.                                                         *)
(***************************************************************************)
\* Array.prototype.map
Map(s, f(_)) == [i \in 1..Len(s) |-> f(s[i])]

\* baseSum over the mapped values, left to right, starting from the first
RECURSIVE SumFrom(_, _, _)
SumFrom(s, i, acc) ==
    IF i > Len(s) THEN acc ELSE SumFrom(s, i + 1, NAdd(acc, s[i]))

\* _.sumBy(array, iteratee): 0 for an empty array
SumBy(s, f(_)) ==
    IF Len(s) = 0 THEN Num(0) ELSE SumFrom(Map(s, f), 2, f(s[1]))

\* _.meanBy(array, iteratee): NaN for an empty array
MeanBy(s, f(_)) == IF Len(s) = 0 THEN NaN ELSE NDiv(SumBy(s, f), Num(Len(s)))

\* the distinct values of a sequence, in order of first occurrence
RECURSIVE Uniq(_)
Uniq(s) ==
    IF s = <<>> THEN <<>>
    ELSE LET differs(x) == x # Head(s)
         IN  <<Head(s)>> \o Uniq(SelectSeq(Tail(s), differs))

\* the keys of _.groupBy(array, key), in order of first occurrence (the keys
\* of the pipeline are never array indices, which an object would list first)
GroupKeys(s, key(_)) == Uniq(Map(s, key))

\* one group of _.groupBy(array, key): the elements with that key, in order
Group(s, key(_), k) == LET has(r) == key(r) = k IN SelectSeq(s, has)

(***************************************************************************)
(* Strings that the pipeline compares, joins or splits, as code units.     *)
(***************************************************************************)
NameA == <<65>>

NameB == <<66>>

\* the product name "B + A", which contains the separator of the pair key
NameBA == <<66, 32, 43, 32, 65>>

\* the absent value: a missing array element, the result of find without match
Undefined == [k |-> "undefined"]

(***************************************************************************)
(* Product Metrics Engine.                                                 *)
(***************************************************************************)
Revenue(p) == Num(p.ProductSalesRevenue)

Area(p) == Num(p.SquareInches)

RevenuePerArea(p) == NDiv(Revenue(p), Area(p))

\* the scoring with the catalog average taken as the mean of the products'
\* own revenue per area, each product counting once whatever its area
calculateProductMetricsMeanOfRatios(products) ==
    LET catalogAvgRevenuePerSqIn == MeanBy(products, RevenuePerArea)
        enrich(product) ==
            LET revenuePerSqIn == NDiv(Revenue(product), Area(product))
            IN  [ProductName |-> product.ProductName,
                 ProductSalesRevenue |-> product.ProductSalesRevenue,
                 SquareInches |-> product.SquareInches,
                 PageNumber |-> product.PageNumber,
                 revenuePerSqIn |-> revenuePerSqIn,
                 spaceEfficiencyIndex |->
                     NMul(NDiv(revenuePerSqIn, catalogAvgRevenuePerSqIn), Num(100)),
                 catalogAvgRevenuePerSqIn |-> catalogAvgRevenuePerSqIn,
                 pageAvgRevenuePerSqIn |-> Num(0),
                 pagePositionRatio |-> Num(0)]
    IN  Map(products, enrich)

calculateProductMetrics(products) ==
    LET totalRevenue == SumBy(products, Revenue)
        totalSquareInches == SumBy(products, Area)
        catalogAvgRevenuePerSqIn == NDiv(totalRevenue, totalSquareInches)
        enrich(product) ==
            LET revenuePerSqIn == NDiv(Revenue(product), Area(product))
            IN  [ProductName |-> product.ProductName,
                 ProductSalesRevenue |-> product.ProductSalesRevenue,
                 SquareInches |-> product.SquareInches,
                 PageNumber |-> product.PageNumber,
                 revenuePerSqIn |-> revenuePerSqIn,
                 spaceEfficiencyIndex |->
                     NMul(NDiv(revenuePerSqIn, catalogAvgRevenuePerSqIn), Num(100)),
                 catalogAvgRevenuePerSqIn |-> catalogAvgRevenuePerSqIn,
                 pageAvgRevenuePerSqIn |-> Num(0),
                 pagePositionRatio |-> Num(0)]
    IN  Map(products, enrich)

\* the entry of pageMetrics for one page: the page's revenue over its area
pageAvgOf(enriched, page) ==
    LET onPage(p) == p.PageNumber = page
        productsOnPage == SelectSeq(enriched, onPage)
    IN  NDiv(SumBy(productsOnPage, Revenue), SumBy(productsOnPage, Area))

calculatePageMetrics(enriched) ==
    LET place(product) ==
            LET pageAvg == pageAvgOf(enriched, product.PageNumber)
            IN  [product EXCEPT
                   !.pageAvgRevenuePerSqIn = pageAvg,
                   !.pagePositionRatio = NDiv(product.revenuePerSqIn, pageAvg)]
    IN  Map(enriched, place)

\* productMetrics.find(p => p['Product Name'] === name)
findProduct(metrics, name) ==
    LET named(p) == p.ProductName = name
        hits == SelectSeq(metrics, named)
    IN  IF hits = <<>> THEN Undefined ELSE hits[1]

hasProduct(metrics, name) == \E i \in 1..Len(metrics) : metrics[i].ProductName = name

(***************************************************************************)
(* String helpers: Array.prototype.sort of two names, join and split.      *)
(***************************************************************************)
\* the separator ' + ' of the pair key
Sep == <<32, 43, 32>>

\* a < b in the order of the default sort: code unit by code unit
RECURSIVE StrLess(_, _)
StrLess(a, b) ==
    IF b = <<>> THEN FALSE
    ELSE IF a = <<>> THEN TRUE
    ELSE IF Head(a) # Head(b) THEN Head(a) < Head(b)
    ELSE StrLess(Tail(a), Tail(b))

\* [a, b].sort()
SortPair(a, b) == IF StrLess(b, a) THEN <<b, a>> ELSE <<a, b>>

\* [a, b].join(' + ')
JoinPair(pair) == pair[1] \o Sep \o pair[2]

\* the first index at or after i where the separator occurs in s, 0 if none
RECURSIVE IndexOfSep(_, _)
IndexOfSep(s, i) ==
    IF i + Len(Sep) - 1 > Len(s) THEN 0
    ELSE IF SubSeq(s, i, i + Len(Sep) - 1) = Sep THEN i
    ELSE IndexOfSep(s, i + 1)

\* s.split(' + ')
RECURSIVE Split(_)
Split(s) ==
    LET i == IndexOfSep(s, 1)
    IN  IF i = 0 THEN <<s>>
        ELSE <<SubSeq(s, 1, i - 1)>> \o Split(SubSeq(s, i + Len(Sep), Len(s)))

\* the concatenation of a sequence of sequences
RECURSIVE Flatten(_)
Flatten(ss) == IF ss = <<>> THEN <<>> ELSE Head(ss) \o Flatten(Tail(ss))

(***************************************************************************)
(* _.orderBy(rows, key, 'desc').                                           *)
(* compareAscending ranks NaN above every number, so a NaN key sorts       *)
(* first; the sort is stable, equal keys keep their order.  Two NaN keys   *)
(* compare inconsistently (each ranks above the other), and the order the  *)
(* engine leaves them in is implementation-defined: every order of the NaN *)
(* rows is an outcome.                                                     *)
(***************************************************************************)
\* insertion of x in front of the rows whose key is not above the key of x: a
\* sort that is not stable, equal keys coming out in reverse
RECURSIVE InsertDescBeforeEqual(_, _, _)
InsertDescBeforeEqual(sorted, x, kx) ==
    IF sorted = <<>> THEN <<x>>
    ELSE IF ~NGt(Head(sorted).key, kx) THEN <<x>> \o sorted
    ELSE <<Head(sorted)>> \o InsertDescBeforeEqual(Tail(sorted), x, kx)

\* insertion of x behind the rows whose key is not below the key of x
RECURSIVE InsertDesc(_, _, _)
InsertDesc(sorted, x, kx) ==
    IF sorted = <<>> THEN <<x>>
    ELSE IF NGt(kx, Head(sorted).key) THEN <<x>> \o sorted
    ELSE <<Head(sorted)>> \o InsertDesc(Tail(sorted), x, kx)

\* keyed is a sequence of [key, row]; the stable descending sort of it
RECURSIVE StableDesc(_, _)
StableDesc(keyed, i) ==
    IF i = 0 THEN <<>>
    ELSE InsertDesc(StableDesc(keyed, i - 1), keyed[i], keyed[i].key)

IndexPermutations(n) == {f \in [1..n -> 1..n] : \A i, j \in 1..n : f[i] = f[j] => i = j}

OrderByDesc(rows, key(_)) ==
    LET tag(r) == [key |-> key(r), row |-> r]
        isNaN(t) == t.key.k = "nan"
        notNaN(t) == t.key.k # "nan"
        rowOf(t) == t.row
        keyed == Map(rows, tag)
        nans == SelectSeq(keyed, isNaN)
        rest == SelectSeq(keyed, notNaN)
        tail == Map(StableDesc(rest, Len(rest)), rowOf)
    IN  IF Len(nans) <= 1 THEN {Map(nans, rowOf) \o tail}
        ELSE {[i \in 1..Len(nans) |-> nans[f[i]].row] \o tail :
                 f \in IndexPermutations(Len(nans))}

(***************************************************************************)
(* Segment Aggregator.                                                     *)
(***************************************************************************)
\* the text ' Income ' of the segment label
IncomeLabel == <<32, 73, 110, 99, 111, 109, 101, 32>>

Email(r) == r.CustomerEmail

RevenueGenerated(r) == Num(r.RevenueGenerated)

RevenueTimesSEI(r) == NMul(Num(r.RevenueGenerated), r.spaceEfficiencyIndex)

\* the join that keeps one of several identical customer rows
joinProductsDistinctRows(customers, metrics) ==
    LET matched(r) == hasProduct(metrics, r.ProductName)
        join(r) ==
            LET productMatch == findProduct(metrics, r.ProductName)
            IN  [CustomerEmail |-> r.CustomerEmail,
                 ProductName |-> r.ProductName,
                 UnitsPurchased |-> r.UnitsPurchased,
                 RevenueGenerated |-> r.RevenueGenerated,
                 AgeRange |-> r.AgeRange,
                 IncomeTier |-> r.IncomeTier,
                 Location |-> r.Location,
                 spaceEfficiencyIndex |-> productMatch.spaceEfficiencyIndex,
                 SquareInches |-> productMatch.SquareInches]
    IN  Map(Uniq(SelectSeq(customers, matched)), join)

\* the customer rows whose product is found, each with its product's fields
joinProducts(customers, metrics) ==
    LET matched(r) == hasProduct(metrics, r.ProductName)
        join(r) ==
            LET productMatch == findProduct(metrics, r.ProductName)
            IN  [CustomerEmail |-> r.CustomerEmail,
                 ProductName |-> r.ProductName,
                 UnitsPurchased |-> r.UnitsPurchased,
                 RevenueGenerated |-> r.RevenueGenerated,
                 AgeRange |-> r.AgeRange,
                 IncomeTier |-> r.IncomeTier,
                 Location |-> r.Location,
                 spaceEfficiencyIndex |-> productMatch.spaceEfficiencyIndex,
                 SquareInches |-> productMatch.SquareInches]
    IN  Map(SelectSeq(customers, matched), join)

segmentOf(r) == r.IncomeTier \o IncomeLabel \o r.Location

\* the aggregation with the customers of a segment counted by rows, a
\* customer counting once for each purchase
segmentRowsCountingRows(customers, metrics) ==
    LET segmentedData == joinProducts(customers, metrics)
        spaceOf(r) == Num(r.UnitsPurchased * r.SquareInches)
        analyse(segment) ==
            LET records == Group(segmentedData, segmentOf, segment)
                totalRevenue == SumBy(records, RevenueGenerated)
                totalSpaceConsumed == SumBy(records, spaceOf)
                weightedSEI == NDiv(SumBy(records, RevenueTimesSEI), totalRevenue)
            IN  [segment |-> segment,
                 customers |-> Len(records),
                 totalRevenue |-> totalRevenue,
                 weightedAvgSEI |-> Round1(weightedSEI),
                 spaceConsumed |-> totalSpaceConsumed,
                 revenuePerSqIn |-> Round2(NDiv(totalRevenue, totalSpaceConsumed))]
    IN  Map(GroupKeys(segmentedData, segmentOf), analyse)

\* the rows of the segment table before the final orderBy
segmentRows(customers, metrics) ==
    LET segmentedData == joinProducts(customers, metrics)
        spaceOf(r) == Num(r.UnitsPurchased * r.SquareInches)
        analyse(segment) ==
            LET records == Group(segmentedData, segmentOf, segment)
                totalRevenue == SumBy(records, RevenueGenerated)
                totalSpaceConsumed == SumBy(records, spaceOf)
                weightedSEI == NDiv(SumBy(records, RevenueTimesSEI), totalRevenue)
            IN  [segment |-> segment,
                 customers |-> Len(Uniq(Map(records, Email))),
                 totalRevenue |-> totalRevenue,
                 weightedAvgSEI |-> Round1(weightedSEI),
                 spaceConsumed |-> totalSpaceConsumed,
                 revenuePerSqIn |-> Round2(NDiv(totalRevenue, totalSpaceConsumed))]
    IN  Map(GroupKeys(segmentedData, segmentOf), analyse)

byRevenuePerSqIn(row) == row.revenuePerSqIn

\* the tables generateSegmentAnalysis can return
generateSegmentAnalysis(customers, metrics) ==
    OrderByDesc(segmentRows(customers, metrics), byRevenuePerSqIn)

(***************************************************************************)
(* Affinity Analyzer.                                                      *)
(***************************************************************************)
\* the pairs pushed for one customer by the loops over i < j
RECURSIVE pairsFrom(_, _, _, _)
pairsFrom(purchases, customerEmail, i, j) ==
    IF i > Len(purchases) THEN <<>>
    ELSE IF j > Len(purchases) THEN pairsFrom(purchases, customerEmail, i + 1, i + 2)
    ELSE <<[customer |-> customerEmail,
            product1 |-> purchases[i].ProductName,
            product2 |-> purchases[j].ProductName]>>
         \o pairsFrom(purchases, customerEmail, i, j + 1)

\* the pairing with the grouping by customer left out: every two rows of the
\* input are paired, whoever bought them
coPurchasePairsAcrossCustomers(customers) ==
    IF Len(customers) > 1
    THEN pairsFrom(customers, customers[1].CustomerEmail, 1, 2)
    ELSE <<>>

\* the array coPurchases after the loop over the customer groups
coPurchasePairs(customers) ==
    LET pairsOf(customerEmail) ==
            LET purchases == Group(customers, Email, customerEmail)
            IN  IF Len(purchases) > 1
                THEN pairsFrom(purchases, customerEmail, 1, 2)
                ELSE <<>>
    IN  Flatten(Map(GroupKeys(customers, Email), pairsOf))

\* the key of a pair: the two names sorted and joined
pairKey(record) == JoinPair(SortPair(record.product1, record.product2))

\* the affinity rows with the SEI of the first product reported for the
\* second product as well
affinityRowsAnchorSEITwice(customers, metrics) ==
    LET coPurchases == coPurchasePairs(customers)
        found(productPair) ==
            LET parts == Split(productPair)
            IN  /\ hasProduct(metrics, parts[1])
                /\ hasProduct(metrics, parts[2])
        analyse(productPair) ==
            LET parts == Split(productPair)
                product1Metrics == findProduct(metrics, parts[1])
                product2Metrics == findProduct(metrics, parts[2])
            IN  [anchorProduct |-> parts[1],
                 anchorSEI |-> Round1(product1Metrics.spaceEfficiencyIndex),
                 boughtWithProduct |-> parts[2],
                 boughtWithSEI |-> Round1(product1Metrics.spaceEfficiencyIndex),
                 coPurchases |-> Len(Group(coPurchases, pairKey, productPair)),
                 combinedEfficiency |->
                     Round1(NDiv(NAdd(product1Metrics.spaceEfficiencyIndex,
                                      product2Metrics.spaceEfficiencyIndex),
                                 Num(2)))]
    IN  Map(SelectSeq(GroupKeys(coPurchases, pairKey), found), analyse)

\* the rows of the affinity table before the final orderBy
affinityRows(customers, metrics) ==
    LET coPurchases == coPurchasePairs(customers)
        found(productPair) ==
            LET parts == Split(productPair)
            IN  /\ hasProduct(metrics, parts[1])
                /\ hasProduct(metrics, parts[2])
        analyse(productPair) ==
            LET parts == Split(productPair)
                product1Metrics == findProduct(metrics, parts[1])
                product2Metrics == findProduct(metrics, parts[2])
            IN  [anchorProduct |-> parts[1],
                 anchorSEI |-> Round1(product1Metrics.spaceEfficiencyIndex),
                 boughtWithProduct |-> parts[2],
                 boughtWithSEI |-> Round1(product2Metrics.spaceEfficiencyIndex),
                 coPurchases |-> Len(Group(coPurchases, pairKey, productPair)),
                 combinedEfficiency |->
                     Round1(NDiv(NAdd(product1Metrics.spaceEfficiencyIndex,
                                      product2Metrics.spaceEfficiencyIndex),
                                 Num(2)))]
    IN  Map(SelectSeq(GroupKeys(coPurchases, pairKey), found), analyse)

byCombinedEfficiency(row) == row.combinedEfficiency

\* the tables generateAffinityAnalysis can return
generateAffinityAnalysis(customers, metrics) ==
    OrderByDesc(affinityRows(customers, metrics), byCombinedEfficiency)

(***************************************************************************)
(* Customer Profiler.                                                      *)
(***************************************************************************)
SEIOf(r) == r.spaceEfficiencyIndex

\* the profiles with avgSEI weighted by revenue like revenueWeightedSEI
profileRowsWeightedAverage(customers, metrics) ==
    LET enrichedCustomerData == joinProducts(customers, metrics)
        profile(customerEmail) ==
            LET purchases == Group(enrichedCustomerData, Email, customerEmail)
                totalSpent == SumBy(purchases, RevenueGenerated)
                revenueWeightedSEI ==
                    NDiv(SumBy(purchases, RevenueTimesSEI), totalSpent)
                customerInfo == purchases[1]
            IN  [customerEmail |-> customerEmail,
                 ageRange |-> customerInfo.AgeRange,
                 incomeTier |-> customerInfo.IncomeTier,
                 productsBought |-> Len(purchases),
                 totalSpent |-> totalSpent,
                 avgSEI |-> Round1(revenueWeightedSEI),
                 revenueWeightedSEI |-> Round1(revenueWeightedSEI)]
    IN  Map(GroupKeys(enrichedCustomerData, Email), profile)

\* the profiles with the demographics of the last purchase of the customer
profileRowsLastPurchaseDemographics(customers, metrics) ==
    LET enrichedCustomerData == joinProducts(customers, metrics)
        profile(customerEmail) ==
            LET purchases == Group(enrichedCustomerData, Email, customerEmail)
                totalSpent == SumBy(purchases, RevenueGenerated)
                avgSEI == MeanBy(purchases, SEIOf)
                revenueWeightedSEI ==
                    NDiv(SumBy(purchases, RevenueTimesSEI), totalSpent)
                customerInfo == purchases[Len(purchases)]
            IN  [customerEmail |-> customerEmail,
                 ageRange |-> customerInfo.AgeRange,
                 incomeTier |-> customerInfo.IncomeTier,
                 productsBought |-> Len(purchases),
                 totalSpent |-> totalSpent,
                 avgSEI |-> Round1(avgSEI),
                 revenueWeightedSEI |-> Round1(revenueWeightedSEI)]
    IN  Map(GroupKeys(enrichedCustomerData, Email), profile)

\* the rows of the profile table before the final orderBy
profileRows(customers, metrics) ==
    LET enrichedCustomerData == joinProducts(customers, metrics)
        profile(customerEmail) ==
            LET purchases == Group(enrichedCustomerData, Email, customerEmail)
                totalSpent == SumBy(purchases, RevenueGenerated)
                avgSEI == MeanBy(purchases, SEIOf)
                revenueWeightedSEI ==
                    NDiv(SumBy(purchases, RevenueTimesSEI), totalSpent)
                customerInfo == purchases[1]
            IN  [customerEmail |-> customerEmail,
                 ageRange |-> customerInfo.AgeRange,
                 incomeTier |-> customerInfo.IncomeTier,
                 productsBought |-> Len(purchases),
                 totalSpent |-> totalSpent,
                 avgSEI |-> Round1(avgSEI),
                 revenueWeightedSEI |-> Round1(revenueWeightedSEI)]
    IN  Map(GroupKeys(enrichedCustomerData, Email), profile)

byRevenueWeightedSEI(row) == row.revenueWeightedSEI

\* the tables generateCustomerProfiles can return
generateCustomerProfiles(customers, metrics) ==
    OrderByDesc(profileRows(customers, metrics), byRevenueWeightedSEI)

(***************************************************************************)
(* Insight Summarizer.                                                     *)
(***************************************************************************)
\* array[i] of JavaScript, counted from 1: undefined outside the array
At(s, i) == IF i \in 1..Len(s) THEN s[i] ELSE Undefined

\* _.maxBy(rows, 'weightedAvgSEI'): the first row no other row exceeds, NaN
\* values never being taken; undefined when no row qualifies
maxByWeightedAvgSEI(rows) ==
    LET ok(i) == rows[i].weightedAvgSEI.k # "nan"
        best(i) ==
            /\ ok(i)
            /\ \A j \in 1..Len(rows) :
                 ok(j) => /\ ~NGt(rows[j].weightedAvgSEI, rows[i].weightedAvgSEI)
                          /\ (j < i => NGt(rows[i].weightedAvgSEI,
                                           rows[j].weightedAvgSEI))
    IN  IF \E i \in 1..Len(rows) : best(i)
        THEN rows[CHOOSE i \in 1..Len(rows) : best(i)]
        ELSE Undefined

avgSEIOf(row) == row.avgSEI

\* the summaries with the top segment taken for the most efficient one
generateInsightSummariesTopIsHighest(segments, affinities, profiles) ==
    LET high(pair) == NGt(pair.combinedEfficiency, Num(150))
        multi(c) == c.productsBought > 1
    IN  [segmentInsights |->
            [topSegment |-> At(segments, 1),
             bottomSegment |-> At(segments, Len(segments)),
             highestEfficiencySegment |-> At(segments, 1),
             totalSegments |-> Len(segments)],
         affinityInsights |->
            [topAffinity |-> At(affinities, 1),
             totalAffinityPairs |-> Len(affinities),
             highEfficiencyPairs |-> Len(SelectSeq(affinities, high))],
         customerInsights |->
            [topCustomer |-> At(profiles, 1),
             avgCustomerSEI |-> MeanBy(profiles, avgSEIOf),
             multiProductCustomers |-> Len(SelectSeq(profiles, multi)),
             totalCustomers |-> Len(profiles)]]

generateInsightSummaries(segments, affinities, profiles) ==
    LET high(pair) == NGt(pair.combinedEfficiency, Num(150))
        multi(c) == c.productsBought > 1
    IN  [segmentInsights |->
            [topSegment |-> At(segments, 1),
             bottomSegment |-> At(segments, Len(segments)),
             highestEfficiencySegment |-> maxByWeightedAvgSEI(segments),
             totalSegments |-> Len(segments)],
         affinityInsights |->
            [topAffinity |-> At(affinities, 1),
             totalAffinityPairs |-> Len(affinities),
             highEfficiencyPairs |-> Len(SelectSeq(affinities, high))],
         customerInsights |->
            [topCustomer |-> At(profiles, 1),
             avgCustomerSEI |-> MeanBy(profiles, avgSEIOf),
             multiProductCustomers |-> Len(SelectSeq(profiles, multi)),
             totalCustomers |-> Len(profiles)]]

(***************************************************************************)
(* The inputs of a run: the record sets loadDatasets returns.              *)
(***************************************************************************)
\* the sequences over S of length at most n
BSeq(S, n) == UNION {[1..k -> S] : k \in 0..n}

Product(name, revenue, area, page) ==
    [ProductName |-> name, ProductSalesRevenue |-> revenue,
     SquareInches |-> area, PageNumber |-> page]

Purchase(email, name) ==
    [CustomerEmail |-> email, ProductName |-> name, UnitsPurchased |-> 1,
     RevenueGenerated |-> 100, AgeRange |-> "25-34",
     IncomeTier |-> <<72>>, Location |-> <<85>>]

ProductChoices ==
    {Product(name, revenue, area, page) :
        name \in {NameA, NameB}, revenue \in {0, 500, 1000},
        area \in {0, 10, 20}, page \in {1, 2}}

PurchaseChoices ==
    {Purchase(email, name) : email \in {"c1", "c2"}, name \in {NameA, NameB, NameBA}}

\* the catalog of the scenario of the specification, alone and next to a
\* product whose name contains the separator
ScenarioCatalogs ==
    {<<Product(NameA, 1000, 10, 1), Product(NameB, 500, 10, 1)>>,
     <<Product(NameA, 1000, 10, 1), Product(NameB, 500, 10, 1),
       Product(NameBA, 500, 20, 2)>>}

ScenarioPurchases ==
    <<Purchase("c1", NameA), Purchase("c1", NameB), Purchase("c2", NameA)>>

(***************************************************************************)
(* The page before any analysis: the initial values of the useState cells. *)
(* results holds 0 for null and otherwise the number of the run whose      *)
(* result set it holds; an entry of tabInsights carries, next to content   *)
(* and loading, the result set whose data went into the request body.      *)
(***************************************************************************)
Views == {"foundational", "segment", "affinity", "profiles"}

ResultSets == 1..MaxRuns

NoResults == 0

NoInsights == [view \in Views |-> Undefined]

\* showHelp = null
NoHelp == ""

NoRequests == [call \in Views \X ResultSets |-> 0]

PageLoaded ==
    /\ results = NoResults
    /\ loading = FALSE
    /\ tabInsights = NoInsights
    /\ activeTab = "foundational"
    /\ error = ""
    /\ showHelp = NoHelp
    /\ runs = 0
    /\ tabChanges = 0
    /\ requests = NoRequests
    /\ issued = NoRequests

(***************************************************************************)
(* processFullAnalysis, one action per call of its try block.  None of the *)
(* calls throws on parsed record sets, so the catch block has no action.   *)
(***************************************************************************)
Init ==
    /\ \/ /\ productData \in BSeq(ProductChoices, MaxProducts)
          /\ customerData = ScenarioPurchases
       \/ /\ productData \in ScenarioCatalogs
          /\ customerData \in BSeq(PurchaseChoices, MaxPurchases)
    /\ pc = "start"
    /\ productMetrics = <<>>
    /\ enrichedProducts = <<>>
    /\ segmentAnalysis = <<>>
    /\ affinityAnalysis = <<>>
    /\ customerProfiles = <<>>
    /\ insightSummaries = Undefined
    /\ result = Undefined
    /\ PageLoaded

CalculateProductMetrics ==
    /\ pc = "start"
    /\ productMetrics' = calculateProductMetrics(productData)
    /\ pc' = "metrics"
    /\ UNCHANGED <<productData, customerData, enrichedProducts, segmentAnalysis,
                   affinityAnalysis, customerProfiles, insightSummaries, result>>
    /\ UNCHANGED pageVars

CalculatePageMetrics ==
    /\ pc = "metrics"
    /\ enrichedProducts' = calculatePageMetrics(productMetrics)
    /\ pc' = "pages"
    /\ UNCHANGED <<productData, customerData, productMetrics, segmentAnalysis,
                   affinityAnalysis, customerProfiles, insightSummaries, result>>
    /\ UNCHANGED pageVars

GenerateSegmentAnalysis ==
    /\ pc = "pages"
    /\ segmentAnalysis' \in generateSegmentAnalysis(customerData, enrichedProducts)
    /\ pc' = "segments"
    /\ UNCHANGED <<productData, customerData, productMetrics, enrichedProducts,
                   affinityAnalysis, customerProfiles, insightSummaries, result>>
    /\ UNCHANGED pageVars

GenerateAffinityAnalysis ==
    /\ pc = "segments"
    /\ affinityAnalysis' \in generateAffinityAnalysis(customerData, enrichedProducts)
    /\ pc' = "affinity"
    /\ UNCHANGED <<productData, customerData, productMetrics, enrichedProducts,
                   segmentAnalysis, customerProfiles, insightSummaries, result>>
    /\ UNCHANGED pageVars

GenerateCustomerProfiles ==
    /\ pc = "affinity"
    /\ customerProfiles' \in generateCustomerProfiles(customerData, enrichedProducts)
    /\ pc' = "profiles"
    /\ UNCHANGED <<productData, customerData, productMetrics, enrichedProducts,
                   segmentAnalysis, affinityAnalysis, insightSummaries, result>>
    /\ UNCHANGED pageVars

GenerateInsightSummaries ==
    /\ pc = "profiles"
    /\ insightSummaries' =
           generateInsightSummaries(segmentAnalysis, affinityAnalysis, customerProfiles)
    /\ pc' = "insights"
    /\ UNCHANGED <<productData, customerData, productMetrics, enrichedProducts,
                   segmentAnalysis, affinityAnalysis, customerProfiles, result>>
    /\ UNCHANGED pageVars

\* a return that reports an error next to the tables
ReturnSuccessWithError ==
    /\ pc = "insights"
    /\ result' = [success |-> TRUE,
                  data |-> [productMetrics |-> enrichedProducts,
                            segmentAnalysis |-> segmentAnalysis,
                            affinityAnalysis |-> affinityAnalysis,
                            customerProfiles |-> customerProfiles,
                            insightSummaries |-> insightSummaries],
                  error |-> [message |-> "Unknown error occurred"]]
    /\ pc' = "done"
    /\ UNCHANGED <<productData, customerData, productMetrics, enrichedProducts,
                   segmentAnalysis, affinityAnalysis, customerProfiles,
                   insightSummaries>>
    /\ UNCHANGED pageVars

ReturnSuccess ==
    /\ pc = "insights"
    /\ result' = [success |-> TRUE,
                  data |-> [productMetrics |-> enrichedProducts,
                            segmentAnalysis |-> segmentAnalysis,
                            affinityAnalysis |-> affinityAnalysis,
                            customerProfiles |-> customerProfiles,
                            insightSummaries |-> insightSummaries],
                  error |-> Undefined]
    /\ pc' = "done"
    /\ UNCHANGED <<productData, customerData, productMetrics, enrichedProducts,
                   segmentAnalysis, affinityAnalysis, customerProfiles,
                   insightSummaries>>
    /\ UNCHANGED pageVars

Next ==
    \/ CalculateProductMetrics
    \/ CalculatePageMetrics
    \/ GenerateSegmentAnalysis
    \/ GenerateAffinityAnalysis
    \/ GenerateCustomerProfiles
    \/ GenerateInsightSummaries
    \/ ReturnSuccess

Spec == Init /\ [][Next]_vars

(***************************************************************************)
(* Runs on the catalog of the scenario with purchase rows that differ in   *)
(* customer, location, product, units and revenue: the inputs of the       *)
(* Segment Aggregator.                                                     *)
(***************************************************************************)
ScenarioCatalog == <<Product(NameA, 1000, 10, 1), Product(NameB, 500, 10, 1)>>

SegmentPurchase(email, location, name, units, revenue) ==
    [CustomerEmail |-> email, ProductName |-> name, UnitsPurchased |-> units,
     RevenueGenerated |-> revenue, AgeRange |-> "25-34",
     IncomeTier |-> <<72>>, Location |-> location]

\* customers c1 and c2 in location X, c2 also in location Y; product A bought
\* with or without units and revenue, product B, and a product not in the
\* catalog
SegmentPurchaseChoices ==
    {SegmentPurchase(who[1], who[2], what[1], what[2], what[3]) :
        who \in {<<"c1", <<88>>>>, <<"c2", <<88>>>>, <<"c2", <<89>>>>},
        what \in {<<NameA, 1, 100>>, <<NameA, 3, 200>>, <<NameA, 0, 0>>,
                  <<NameA, 0, 100>>, <<NameB, 1, 200>>, <<NameBA, 1, 100>>}}

InitSegments ==
    /\ productData = ScenarioCatalog
    /\ customerData \in BSeq(SegmentPurchaseChoices, MaxSegmentRows)
    /\ pc = "start"
    /\ productMetrics = <<>>
    /\ enrichedProducts = <<>>
    /\ segmentAnalysis = <<>>
    /\ affinityAnalysis = <<>>
    /\ customerProfiles = <<>>
    /\ insightSummaries = Undefined
    /\ result = Undefined
    /\ PageLoaded

SpecSegments == InitSegments /\ [][Next]_vars

(***************************************************************************)
(* Runs on the catalog of the scenario with purchase rows that differ in   *)
(* customer, product, revenue and demographics: the inputs of the Customer *)
(* Profiler.                                                               *)
(***************************************************************************)
ProfilePurchase(email, name, revenue, age, income) ==
    [CustomerEmail |-> email, ProductName |-> name, UnitsPurchased |-> 1,
     RevenueGenerated |-> revenue, AgeRange |-> age,
     IncomeTier |-> income, Location |-> <<85>>]

\* customers c1 and c2; products A and B bought for a revenue of 0, 100 or
\* 200, and a product not in the catalog; the demographics differ from row
\* to row
ProfilePurchaseChoices ==
    {ProfilePurchase(email, what[1], what[2], what[3], what[4]) :
        email \in {"c1", "c2"},
        what \in {<<NameA, 0, "25-34", <<72>>>>, <<NameA, 100, "25-34", <<72>>>>,
                  <<NameA, 200, "35-44", <<76>>>>, <<NameB, 0, "35-44", <<76>>>>,
                  <<NameB, 100, "35-44", <<76>>>>, <<NameB, 200, "25-34", <<72>>>>,
                  <<NameBA, 100, "45-54", <<77>>>>}}

InitProfiles ==
    /\ productData = ScenarioCatalog
    /\ customerData \in BSeq(ProfilePurchaseChoices, MaxProfileRows)
    /\ pc = "start"
    /\ productMetrics = <<>>
    /\ enrichedProducts = <<>>
    /\ segmentAnalysis = <<>>
    /\ affinityAnalysis = <<>>
    /\ customerProfiles = <<>>
    /\ insightSummaries = Undefined
    /\ result = Undefined
    /\ PageLoaded

SpecProfiles == InitProfiles /\ [][Next]_vars

(***************************************************************************)
(* Runs on every input above: the three families of record sets together.  *)
(***************************************************************************)
InitTables == Init \/ InitSegments \/ InitProfiles

SpecTables == InitTables /\ [][Next]_vars

(***************************************************************************)
(* The page (src/app/page.tsx).  A handler runs to its next await in one   *)
(* step; the render that follows every state update is part of the step,   *)
(* with the call of loadTabInsights the body of Home makes.  A narrative   *)
(* call in flight is a pair of the view and the result set whose data is   *)
(* in its body.                                                            *)
(***************************************************************************)
pageOf(insights, calls, count) ==
    [tabInsights |-> insights, requests |-> calls, issued |-> count]

\* loadTabInsights up to its fetch, called with a given result set held
loadTabInsights(tabId, held, page) ==
    IF held = NoResults \/ page.tabInsights[tabId] # Undefined
    THEN page
    ELSE pageOf([page.tabInsights EXCEPT
                    ![tabId] = [content |-> "", loading |-> TRUE, from |-> held]],
                [page.requests EXCEPT ![<<tabId, held>>] = @ + 1],
                [page.issued EXCEPT ![<<tabId, held>>] = @ + 1])

\* the body of Home: the narrative of the active view is asked for when
\* results are held and the view has no entry
Render(held, active, page) ==
    IF held # NoResults /\ page.tabInsights[active] = Undefined
    THEN loadTabInsights(active, held, page)
    ELSE page

\* the state after the render of the updated cells
Commit(held, active, page) ==
    LET shown == Render(held, active, page)
    IN  /\ tabInsights' = shown.tabInsights
        /\ requests' = shown.requests
        /\ issued' = shown.issued

\* handleAnalysis without both files chosen
HandleAnalysisMissingFile ==
    /\ ~loading
    /\ error' = "Please select both CSV files"
    /\ Commit(results, activeTab, pageOf(tabInsights, requests, issued))
    /\ UNCHANGED <<results, loading, activeTab, runs, tabChanges, showHelp>>
    /\ UNCHANGED pipelineVars

\* handleAnalysis up to the reading of the files; the button is disabled
\* while a run is in progress
HandleAnalysis ==
    /\ ~loading
    /\ runs < MaxRuns
    /\ runs' = runs + 1
    /\ loading' = TRUE
    /\ error' = ""
    /\ Commit(results, activeTab, pageOf(NoInsights, requests, issued))
    /\ UNCHANGED <<results, activeTab, tabChanges, showHelp>>
    /\ UNCHANGED pipelineVars

\* processFullAnalysis returned the tables
AnalysisSucceeds ==
    /\ loading
    /\ results' = runs
    /\ loading' = FALSE
    /\ Commit(runs, activeTab, pageOf(tabInsights, requests, issued))
    /\ UNCHANGED <<activeTab, error, runs, tabChanges, showHelp>>
    /\ UNCHANGED pipelineVars

\* a failed run that also drops the result set held
AnalysisFailsDroppingResults ==
    /\ loading
    /\ \E message \in {"", "Unknown error occurred"} :
         error' = IF message = "" THEN "Analysis failed" ELSE message
    /\ results' = NoResults
    /\ loading' = FALSE
    /\ Commit(NoResults, activeTab, pageOf(tabInsights, requests, issued))
    /\ UNCHANGED <<activeTab, runs, tabChanges, showHelp>>
    /\ UNCHANGED pipelineVars

\* processFullAnalysis returned a failure result, with or without a message
AnalysisFails ==
    /\ loading
    /\ \E message \in {"", "Unknown error occurred"} :
         error' = IF message = "" THEN "Analysis failed" ELSE message
    /\ loading' = FALSE
    /\ Commit(results, activeTab, pageOf(tabInsights, requests, issued))
    /\ UNCHANGED <<results, activeTab, runs, tabChanges, showHelp>>
    /\ UNCHANGED pipelineVars

\* the reading of a file threw: an Error with its message, or another value
AnalysisThrows ==
    /\ loading
    /\ error' \in {"The file could not be read", "An error occurred"}
    /\ loading' = FALSE
    /\ Commit(results, activeTab, pageOf(tabInsights, requests, issued))
    /\ UNCHANGED <<results, activeTab, runs, tabChanges, showHelp>>
    /\ UNCHANGED pipelineVars

\* handleTabChange; the tabs are on the page while results are held
HandleTabChange ==
    /\ results # NoResults
    /\ tabChanges < MaxTabChanges
    /\ tabChanges' = tabChanges + 1
    /\ \E tabId \in Views :
         /\ activeTab' = tabId
         /\ Commit(results, tabId,
                   loadTabInsights(tabId, results,
                                   pageOf(tabInsights, requests, issued)))
    /\ UNCHANGED <<results, loading, error, runs, showHelp>>
    /\ UNCHANGED pipelineVars

\* the methodology help is opened or closed: a render with the tables, the
\* active view and the entries as they were
ToggleHelp ==
    /\ showHelp' = IF showHelp = "methodology" THEN NoHelp ELSE "methodology"
    /\ Commit(results, activeTab, pageOf(tabInsights, requests, issued))
    /\ UNCHANGED <<results, loading, activeTab, error, runs, tabChanges>>
    /\ UNCHANGED pipelineVars

\* the cells after a call that ended has set the entry of its view
answered(tabId, held, text) ==
    pageOf([tabInsights EXCEPT
               ![tabId] = [content |-> text, loading |-> FALSE, from |-> held]],
           [requests EXCEPT ![<<tabId, held>>] = @ - 1],
           issued)

\* a response that replaces the entries of all the views by its own
InsightsGeneratedReplacingEntries ==
    /\ \E tabId \in Views, held \in ResultSets :
         /\ requests[<<tabId, held>>] > 0
         /\ Commit(results, activeTab,
                   pageOf([NoInsights EXCEPT
                              ![tabId] = [content |-> "insights",
                                          loading |-> FALSE, from |-> held]],
                          [requests EXCEPT ![<<tabId, held>>] = @ - 1],
                          issued))
    /\ UNCHANGED <<results, loading, activeTab, error, runs, tabChanges, showHelp>>
    /\ UNCHANGED pipelineVars

\* the response is ok and its body says success: the generated text
InsightsGenerated ==
    /\ \E tabId \in Views, held \in ResultSets :
         /\ requests[<<tabId, held>>] > 0
         /\ Commit(results, activeTab, answered(tabId, held, "insights"))
    /\ UNCHANGED <<results, loading, activeTab, error, runs, tabChanges, showHelp>>
    /\ UNCHANGED pipelineVars

\* the response is ok and its body says success: false
InsightsRefused ==
    /\ \E tabId \in Views, held \in ResultSets :
         /\ requests[<<tabId, held>>] > 0
         /\ Commit(results, activeTab,
                   answered(tabId, held,
                            "Failed to generate insights for this analysis."))
    /\ UNCHANGED <<results, loading, activeTab, error, runs, tabChanges, showHelp>>
    /\ UNCHANGED pipelineVars

\* the response has a status that is not ok (the route answers a failure
\* with status 500): no branch of loadTabInsights sets the entry
ResponseNotOk ==
    /\ \E tabId \in Views, held \in ResultSets :
         /\ requests[<<tabId, held>>] > 0
         /\ Commit(results, activeTab,
                   pageOf(tabInsights,
                          [requests EXCEPT ![<<tabId, held>>] = @ - 1],
                          issued))
    /\ UNCHANGED <<results, loading, activeTab, error, runs, tabChanges, showHelp>>
    /\ UNCHANGED pipelineVars

\* fetch or the reading of the body threw
FetchThrows ==
    /\ \E tabId \in Views, held \in ResultSets :
         /\ requests[<<tabId, held>>] > 0
         /\ Commit(results, activeTab,
                   answered(tabId, held, "Error loading insights."))
    /\ UNCHANGED <<results, loading, activeTab, error, runs, tabChanges, showHelp>>
    /\ UNCHANGED pipelineVars

NextPage ==
    \/ HandleAnalysisMissingFile
    \/ HandleAnalysis
    \/ AnalysisSucceeds
    \/ AnalysisFails
    \/ AnalysisThrows
    \/ HandleTabChange
    \/ ToggleHelp
    \/ InsightsGenerated
    \/ InsightsRefused
    \/ ResponseNotOk
    \/ FetchThrows

\* the page with no run of the pipeline model in progress
InitPage ==
    /\ PageLoaded
    /\ pc = "start"
    /\ productData = <<>>
    /\ customerData = <<>>
    /\ productMetrics = <<>>
    /\ enrichedProducts = <<>>
    /\ segmentAnalysis = <<>>
    /\ affinityAnalysis = <<>>
    /\ customerProfiles = <<>>
    /\ insightSummaries = Undefined
    /\ result = Undefined

SpecPage == InitPage /\ [][NextPage]_vars

(***************************************************************************)
(* Properties.                                                             *)
(***************************************************************************)
Returned == pc = "done"

IsFailure(r) == r.success = FALSE /\ r.error # Undefined /\ r.data = Undefined

IsSuccess(r) ==
    /\ r.success = TRUE
    /\ r.error = Undefined
    /\ r.data # Undefined
    /\ DOMAIN r.data = {"productMetrics", "segmentAnalysis", "affinityAnalysis",
                        "customerProfiles", "insightSummaries"}

\* C1: a run on an empty product record set returns a failure result, never
\* a success result with empty or NaN-filled tables.
C1_EmptyProductSetFails ==
    (Returned /\ productData = <<>>) => IsFailure(result)

\* C2: every run of processFullAnalysis goes on to its return without a
\* throw, and what it returns is exactly one of a success result (the four
\* tables and the insight summary, no error) and a failure result (an error
\* message, no data).
C2_ExactlyOneResultShape ==
    /\ pc \in {"start", "metrics", "pages", "segments", "affinity", "profiles",
               "insights", "done"}
    /\ pc = "pages" => generateSegmentAnalysis(customerData, enrichedProducts) # {}
    /\ pc = "segments" => generateAffinityAnalysis(customerData, enrichedProducts) # {}
    /\ pc = "affinity" => generateCustomerProfiles(customerData, enrichedProducts) # {}
    /\ Returned =>
         /\ IsSuccess(result) \/ IsFailure(result)
         /\ ~(IsSuccess(result) /\ IsFailure(result))
         /\ IsSuccess(result) =>
              /\ result.data.productMetrics = enrichedProducts
              /\ result.data.segmentAnalysis = segmentAnalysis
              /\ result.data.affinityAnalysis = affinityAnalysis
              /\ result.data.customerProfiles = customerProfiles
              /\ result.data.insightSummaries = insightSummaries

C2_Witness ==
    /\ Returned
    /\ IsSuccess(result)
    /\ Len(result.data.productMetrics) = 2
    /\ Len(result.data.affinityAnalysis) > 0

\* C3: when some product record has area 0 the run returns a failure result,
\* and no product row carries a non-finite revenue-per-area or SEI.
C3_ZeroAreaFails ==
    (Returned /\ \E i \in 1..Len(productData) : productData[i].SquareInches = 0)
       => /\ IsFailure(result)
          /\ \A i \in 1..Len(enrichedProducts) :
               /\ IsFinite(enrichedProducts[i].revenuePerSqIn)
               /\ IsFinite(enrichedProducts[i].spaceEfficiencyIndex)

\* the customer records without the row at position i
RemoveAt(s, i) == SubSeq(s, 1, i - 1) \o SubSeq(s, i + 1, Len(s))

\* C4: a customer row whose product name matches no product does not abort
\* the run, and the segment, affinity and profile tables are those computed
\* from the customer records without that row.
C4_UnmatchedRowIsDropped ==
    Returned =>
      \A i \in 1..Len(customerData) :
        ~hasProduct(enrichedProducts, customerData[i].ProductName) =>
          LET rest == RemoveAt(customerData, i)
          IN  /\ IsSuccess(result)
              /\ segmentAnalysis \in generateSegmentAnalysis(rest, enrichedProducts)
              /\ affinityAnalysis \in generateAffinityAnalysis(rest, enrichedProducts)
              /\ customerProfiles \in generateCustomerProfiles(rest, enrichedProducts)

\* the sum of an integer field over the product records, in integers
RECURSIVE TotalOf(_, _)
TotalOf(products, field) ==
    IF products = <<>> THEN 0
    ELSE Head(products)[field] + TotalOf(Tail(products), field)

\* C5: when the total area is positive every row carries the same catalog
\* average, the quotient of the summed revenue by the summed area (so that
\* average x summed area = summed revenue), and the SEI of a row is its
\* revenue per area over that average, times 100: for A(1000,10), B(500,10)
\* the average is 75 and the SEI 133.3 and 66.7 to one decimal.  Where the
\* quotient has a zero divisor the SEI is what JavaScript makes of it.
C5_CatalogAverageAndSEI ==
    LET totalRevenue == TotalOf(productData, "ProductSalesRevenue")
        totalArea == TotalOf(productData, "SquareInches")
    IN  (pc # "start" /\ totalArea > 0) =>
          /\ Len(productMetrics) = Len(productData)
          /\ \A i \in 1..Len(productMetrics) :
               LET row == productMetrics[i]
                   avg == row.catalogAvgRevenuePerSqIn
                   sei == row.spaceEfficiencyIndex
                   revenue == productData[i].ProductSalesRevenue
                   area == productData[i].SquareInches
               IN  /\ IsFinite(avg)
                   /\ avg.n * totalArea = avg.d * totalRevenue
                   /\ avg = productMetrics[1].catalogAvgRevenuePerSqIn
                   /\ (area > 0 /\ totalRevenue > 0) =>
                        /\ IsFinite(sei)
                        /\ sei.n * (area * totalRevenue)
                             = sei.d * (100 * revenue * totalArea)
                   /\ (area = 0 /\ totalRevenue > 0) =>
                        sei = (IF revenue > 0 THEN Inf(1) ELSE NaN)
                   /\ totalRevenue = 0 => sei = NaN
          /\ productData = <<Product(NameA, 1000, 10, 1), Product(NameB, 500, 10, 1)>> =>
               /\ productMetrics[1].catalogAvgRevenuePerSqIn = Num(75)
               /\ Round1(productMetrics[1].spaceEfficiencyIndex) = Fin(1333, 10)
               /\ Round1(productMetrics[2].spaceEfficiencyIndex) = Fin(667, 10)

\* a catalog of products with different areas and different revenue per
\* area has been scored
C5_Witness ==
    /\ pc = "metrics"
    /\ Len(productData) = 2
    /\ productData[1].SquareInches = 10
    /\ productData[2].SquareInches = 20
    /\ productData[1].ProductSalesRevenue = 1000
    /\ productData[2].ProductSalesRevenue = 500
    /\ productMetrics[1].catalogAvgRevenuePerSqIn = Num(50)
    /\ productMetrics[1].spaceEfficiencyIndex = Num(200)
    /\ productMetrics[2].spaceEfficiencyIndex = Num(50)

\* C6: on a catalog of a single product with revenue >= 0 and area > 0 the
\* SEI of that product is exactly 100.
C6_SingleProductSEI ==
    (pc = "metrics" /\ Len(productData) = 1
       /\ productData[1].ProductSalesRevenue >= 0
       /\ productData[1].SquareInches > 0)
      => productMetrics[1].spaceEfficiencyIndex = Num(100)

\* C7: a product that is the only product on its page (revenue >= 0,
\* area > 0) gets pagePositionRatio exactly 1.
C7_AloneOnPageRatio ==
    pc = "pages" =>
      \A i \in 1..Len(productData) :
        (/\ \A j \in 1..Len(productData) :
               productData[j].PageNumber = productData[i].PageNumber => j = i
         /\ productData[i].ProductSalesRevenue >= 0
         /\ productData[i].SquareInches > 0)
          => enrichedProducts[i].pagePositionRatio = Num(1)

\* C8: no row of the affinity table pairs a product with itself.
C8_NoSelfPair ==
    Returned =>
      \A i \in 1..Len(affinityAnalysis) :
        affinityAnalysis[i].anchorProduct # affinityAnalysis[i].boughtWithProduct

\* the names of the product set
ProductNames == {productData[i].ProductName : i \in 1..Len(productData)}

\* the product names in the purchase rows of one customer
BoughtBy(email) ==
    {customerData[i].ProductName :
        i \in {k \in 1..Len(customerData) : customerData[k].CustomerEmail = email}}

\* the unordered pairs of distinct products bought by a common customer
CoPurchasedPairs ==
    {{a, b} : a \in ProductNames, b \in ProductNames} \cap
    {pair \in SUBSET ProductNames :
        /\ Cardinality(pair) = 2
        /\ \E i \in 1..Len(customerData) :
             pair \subseteq BoughtBy(customerData[i].CustomerEmail)}

PairOfRow(row) == {row.anchorProduct, row.boughtWithProduct}

\* C9: the affinity table has exactly one row for each unordered pair of
\* distinct products of the product set bought by a common customer, the
\* row naming exactly the two products, whatever the product names.
C9_OneRowPerCoPurchasedPair ==
    Returned =>
      /\ \A i \in 1..Len(affinityAnalysis) :
           PairOfRow(affinityAnalysis[i]) \in CoPurchasedPairs
      /\ \A pair \in CoPurchasedPairs :
           Cardinality({i \in 1..Len(affinityAnalysis) :
                           PairOfRow(affinityAnalysis[i]) = pair}) = 1

Swap(s, i, j) == [s EXCEPT ![i] = s[j], ![j] = s[i]]

RowSet(table) == {table[k] : k \in 1..Len(table)}

\* C10: the affinity table never holds both a row (A,B) and a row (B,A), and
\* exchanging two purchase rows of a customer leaves the set of affinity
\* rows, coPurchases included, as it is.
C10_PairOrderIndependent ==
    Returned =>
      /\ \A i, j \in 1..Len(affinityAnalysis) :
           (/\ affinityAnalysis[i].anchorProduct # affinityAnalysis[i].boughtWithProduct
            /\ affinityAnalysis[i].anchorProduct = affinityAnalysis[j].boughtWithProduct)
             => affinityAnalysis[i].boughtWithProduct # affinityAnalysis[j].anchorProduct
      /\ \A i, j \in 1..Len(customerData) :
           (i < j /\ customerData[i].CustomerEmail = customerData[j].CustomerEmail)
             => RowSet(affinityRows(Swap(customerData, i, j), enrichedProducts))
                  = RowSet(affinityAnalysis)

\* the positions of the purchase rows of one customer
RowsOf(email) == {k \in 1..Len(customerData) : customerData[k].CustomerEmail = email}

\* C11: a customer with exactly one purchase row is in no candidate pair, and
\* the affinity table is the one computed without that row.
C11_SingleRowCustomerUnpaired ==
    Returned =>
      \A i \in 1..Len(customerData) :
        RowsOf(customerData[i].CustomerEmail) = {i} =>
          /\ \A k \in 1..Len(coPurchasePairs(customerData)) :
               coPurchasePairs(customerData)[k].customer # customerData[i].CustomerEmail
          /\ affinityAnalysis
               \in generateAffinityAnalysis(RemoveAt(customerData, i), enrichedProducts)

\* a customer with one row for a product of the catalog, next to a customer
\* whose rows make an affinity row
C11_Witness ==
    /\ Returned
    /\ Len(affinityAnalysis) > 0
    /\ \E i \in 1..Len(customerData) :
         /\ RowsOf(customerData[i].CustomerEmail) = {i}
         /\ hasProduct(enrichedProducts, customerData[i].ProductName)

\* the pairs of positions i < j of two purchase rows of the same customer
CandidatePairs ==
    {o \in (1..Len(customerData)) \X (1..Len(customerData)) :
        /\ o[1] < o[2]
        /\ customerData[o[1]].CustomerEmail = customerData[o[2]].CustomerEmail}

\* the normalized key of two product names
NormalizedKey(a, b) == JoinPair(SortPair(a, b))

\* C12: a customer with k purchase rows makes k(k-1)/2 candidate pairs, and
\* the coPurchases of an affinity row is the number of candidate pairs, over
\* all customers, whose normalized key is the key of the pair of the row.
C12_CoPurchasesCountsOccurrences ==
    Returned =>
      /\ \A i \in 1..Len(customerData) :
           LET email == customerData[i].CustomerEmail
               k == Cardinality(RowsOf(email))
               pushed == {p \in 1..Len(coPurchasePairs(customerData)) :
                             coPurchasePairs(customerData)[p].customer = email}
           IN  2 * Cardinality(pushed) = k * (k - 1)
      /\ \A r \in 1..Len(affinityAnalysis) :
           affinityAnalysis[r].coPurchases =
             Cardinality({o \in CandidatePairs :
                NormalizedKey(customerData[o[1]].ProductName,
                              customerData[o[2]].ProductName)
                  = NormalizedKey(affinityAnalysis[r].anchorProduct,
                                  affinityAnalysis[r].boughtWithProduct)})

\* the customers who bought both products
BoughtBoth(a, b) ==
    {customerData[i].CustomerEmail : i \in
        {k \in 1..Len(customerData) :
            {a, b} \subseteq BoughtBy(customerData[k].CustomerEmail)}}

\* C13: the coPurchases of an affinity row is the number of customers who
\* bought both products of the row, each customer counted once.
C13_CoPurchasesCountsCustomers ==
    Returned =>
      \A r \in 1..Len(affinityAnalysis) :
        affinityAnalysis[r].coPurchases =
          Cardinality(BoughtBoth(affinityAnalysis[r].anchorProduct,
                                 affinityAnalysis[r].boughtWithProduct))

\* the sum of a sequence of integers
RECURSIVE SumInts(_)
SumInts(s) == IF s = <<>> THEN 0 ELSE Head(s) + SumInts(Tail(s))

\* the positions of the customer rows whose product is in the product set
MatchedRows ==
    {i \in 1..Len(customerData) :
        hasProduct(enrichedProducts, customerData[i].ProductName)}

\* the matched rows of one segment
SegmentMembers(segment) == {i \in MatchedRows : segmentOf(customerData[i]) = segment}

\* the position in the product set of the product a matched row joins to
ProductOfRow(i) ==
    CHOOSE p \in 1..Len(enrichedProducts) :
      /\ enrichedProducts[p].ProductName = customerData[i].ProductName
      /\ \A q \in 1..(p - 1) :
           enrichedProducts[q].ProductName # customerData[i].ProductName

\* a common denominator of the SEI of the products
RECURSIVE SEIDenominator(_)
SEIDenominator(p) ==
    IF p = 0 THEN 1 ELSE enrichedProducts[p].spaceEfficiencyIndex.d * SEIDenominator(p - 1)

\* the SEI of the product of a row, times the common denominator
ScaledSEIOfRow(i) ==
    LET sei == enrichedProducts[ProductOfRow(i)].spaceEfficiencyIndex
    IN  sei.n * (SEIDenominator(Len(enrichedProducts)) \div sei.d)

\* the sum over the rows in members of an integer taken from each row
SumOverRows(members, value(_)) ==
    SumInts([i \in 1..Len(customerData) |-> IF i \in members THEN value(i) ELSE 0])

RevenueOfRow(i) == customerData[i].RevenueGenerated

SpaceOfRow(i) ==
    customerData[i].UnitsPurchased * enrichedProducts[ProductOfRow(i)].SquareInches

RevenueTimesScaledSEIOfRow(i) == customerData[i].RevenueGenerated * ScaledSEIOfRow(i)

\* r is num/den (den > 0) rounded to the nearest multiple of 1/scale, a half
\* going up
IsRounded(r, num, den, scale) ==
    /\ IsFinite(r)
    /\ scale % r.d = 0
    /\ LET m == r.n * (scale \div r.d)
       IN  /\ (2 * m - 1) * den <= 2 * scale * num
           /\ 2 * scale * num < (2 * m + 1) * den

\* C14: in every row of the segment table customers is the number of distinct
\* customer identifiers among the matched rows of the segment, totalRevenue
\* the sum of their revenue, spaceConsumed the sum of units purchased x
\* product area, and weightedAvgSEI the sum of revenue x product SEI over
\* totalRevenue, rounded to one decimal (NaN when totalRevenue is 0).
C14_SegmentRowAggregates ==
    Returned =>
      \A r \in 1..Len(segmentAnalysis) :
        LET row == segmentAnalysis[r]
            members == SegmentMembers(row.segment)
            total == SumOverRows(members, RevenueOfRow)
        IN  /\ members # {}
            /\ row.customers =
                 Cardinality({customerData[i].CustomerEmail : i \in members})
            /\ row.totalRevenue = Num(total)
            /\ row.spaceConsumed = Num(SumOverRows(members, SpaceOfRow))
            /\ total > 0 =>
                 IsRounded(row.weightedAvgSEI,
                           SumOverRows(members, RevenueTimesScaledSEIOfRow),
                           total * SEIDenominator(Len(enrichedProducts)), 10)
            /\ total = 0 => row.weightedAvgSEI = NaN

\* a segment of two customers and three purchases of two products with
\* different revenue
C14_Witness ==
    /\ Returned
    /\ \E r \in 1..Len(segmentAnalysis) :
         /\ segmentAnalysis[r].customers = 2
         /\ Cardinality(SegmentMembers(segmentAnalysis[r].segment)) = 3
         /\ segmentAnalysis[r].totalRevenue = Num(500)
         /\ segmentAnalysis[r].weightedAvgSEI = Fin(1067, 10)

\* C15 as stated: in every segment row (with a positive spaceConsumed, where
\* the quotient is defined) revenuePerSqIn x spaceConsumed is totalRevenue.
C15_ExactReconstruction ==
    Returned =>
      \A r \in 1..Len(segmentAnalysis) :
        NGt(segmentAnalysis[r].spaceConsumed, Num(0)) =>
          NMul(segmentAnalysis[r].revenuePerSqIn, segmentAnalysis[r].spaceConsumed)
            = segmentAnalysis[r].totalRevenue

\* C15: in every segment row with a positive spaceConsumed, revenuePerSqIn x
\* spaceConsumed differs from totalRevenue by at most spaceConsumed x 0.005,
\* revenuePerSqIn being rounded to two decimals, and is equal to it when
\* totalRevenue / spaceConsumed has no more than two decimals.
C15_ReconstructionWithinRounding ==
    Returned =>
      \A r \in 1..Len(segmentAnalysis) :
        LET row == segmentAnalysis[r]
            members == SegmentMembers(row.segment)
            total == SumOverRows(members, RevenueOfRow)
            space == SumOverRows(members, SpaceOfRow)
            rps == row.revenuePerSqIn
        IN  space > 0 =>
              /\ row.totalRevenue = Num(total)
              /\ row.spaceConsumed = Num(space)
              /\ IsFinite(rps)
              /\ 200 * Abs(rps.n * space - total * rps.d) <= space * rps.d
              /\ (100 * total) % space = 0 => rps.n * space = total * rps.d

\* a segment whose revenue per area, 200 / 30, is cut by the rounding
C15_Witness ==
    /\ Returned
    /\ \E r \in 1..Len(segmentAnalysis) :
         /\ segmentAnalysis[r].totalRevenue = Num(200)
         /\ segmentAnalysis[r].spaceConsumed = Num(30)
         /\ segmentAnalysis[r].revenuePerSqIn = Fin(667, 100)

\* C16: a segment whose total area consumed is 0 is signaled as an error, and
\* no segment row is returned with an infinite or NaN revenuePerSqIn.
C16_ZeroSpaceSegmentSignaled ==
    Returned =>
      /\ (\E i \in MatchedRows :
            SumOverRows(SegmentMembers(segmentOf(customerData[i])), SpaceOfRow) = 0)
           => IsFailure(result)
      /\ \A r \in 1..Len(segmentAnalysis) :
           IsFinite(segmentAnalysis[r].revenuePerSqIn)

\* the position of the first customer row among rows that has the segment key
FirstOccurrence(rows, segment) ==
    CHOOSE i \in rows :
      /\ segmentOf(customerData[i]) = segment
      /\ \A k \in rows : segmentOf(customerData[k]) = segment => i <= k

\* two numbers that compare equal (NaN equals nothing)
NEq(x, y) == x.k # "nan" /\ x = y

\* the segment table is in descending order of revenuePerSqIn, no row
\* exceeding a row before it, and rows with equal revenuePerSqIn are in the
\* order in which their segment keys first occur among rows
SegmentsOrdered(rows) ==
    \A i, j \in 1..Len(segmentAnalysis) :
      i < j =>
        /\ ~NGt(segmentAnalysis[j].revenuePerSqIn, segmentAnalysis[i].revenuePerSqIn)
        /\ NEq(segmentAnalysis[i].revenuePerSqIn, segmentAnalysis[j].revenuePerSqIn)
             => FirstOccurrence(rows, segmentAnalysis[i].segment)
                  < FirstOccurrence(rows, segmentAnalysis[j].segment)

\* C17 as stated: descending by revenuePerSqIn, equal values in the order in
\* which the segment keys first occur in the customer input.
C17_TiesInInputOrder ==
    Returned => SegmentsOrdered(1..Len(customerData))

\* C17: descending by revenuePerSqIn, equal values in the order in which the
\* segment keys first occur among the customer rows whose product is in the
\* product set.
C17_TiesInMatchedRowOrder ==
    Returned => SegmentsOrdered(MatchedRows)

\* two segments with equal revenuePerSqIn, the key of the second occurring
\* first in the input, in a row whose product is not in the product set
C17_Witness ==
    /\ Returned
    /\ \E i, j \in 1..Len(segmentAnalysis) :
         /\ i < j
         /\ NEq(segmentAnalysis[i].revenuePerSqIn, segmentAnalysis[j].revenuePerSqIn)
         /\ FirstOccurrence(1..Len(customerData), segmentAnalysis[j].segment)
              < FirstOccurrence(1..Len(customerData), segmentAnalysis[i].segment)

\* the SEI of the first product of the product set with the name
SEIOfProduct(name) ==
    LET p == CHOOSE p \in 1..Len(enrichedProducts) :
               /\ enrichedProducts[p].ProductName = name
               /\ \A q \in 1..(p - 1) : enrichedProducts[q].ProductName # name
    IN  enrichedProducts[p].spaceEfficiencyIndex

\* r is the number x rounded to one decimal; NaN and Infinity stay
IsRounded1Of(r, x) == IF IsFinite(x) THEN IsRounded(r, x.n, x.d, 10) ELSE r = x

\* r is the mean of x and y rounded to one decimal; a NaN makes the mean NaN
\* and, short of that, an Infinity makes it Infinity
IsRoundedMeanOf(r, x, y) ==
    IF IsFinite(x) /\ IsFinite(y)
    THEN IsRounded(r, x.n * y.d + y.n * x.d, 2 * x.d * y.d, 10)
    ELSE IF x.k = "nan" \/ y.k = "nan" THEN r = NaN
    ELSE r = Inf(1)

\* C18: in every affinity row anchorSEI and boughtWithSEI are the SEI of the
\* two products of the row, each rounded to one decimal, and
\* combinedEfficiency is the mean of the two SEI rounded to one decimal.
C18_AffinityRowEfficiency ==
    Returned =>
      \A r \in 1..Len(affinityAnalysis) :
        LET row == affinityAnalysis[r]
        IN  /\ hasProduct(enrichedProducts, row.anchorProduct)
            /\ hasProduct(enrichedProducts, row.boughtWithProduct)
            /\ IsRounded1Of(row.anchorSEI, SEIOfProduct(row.anchorProduct))
            /\ IsRounded1Of(row.boughtWithSEI, SEIOfProduct(row.boughtWithProduct))
            /\ IsRoundedMeanOf(row.combinedEfficiency,
                               SEIOfProduct(row.anchorProduct),
                               SEIOfProduct(row.boughtWithProduct))

\* the pair of the scenario: SEI 133.3 and 66.7, mean 100
C18_Witness ==
    /\ Returned
    /\ \E r \in 1..Len(affinityAnalysis) :
         /\ affinityAnalysis[r].anchorProduct = NameA
         /\ affinityAnalysis[r].boughtWithProduct = NameB
         /\ affinityAnalysis[r].anchorSEI = Fin(1333, 10)
         /\ affinityAnalysis[r].boughtWithSEI = Fin(667, 10)
         /\ affinityAnalysis[r].combinedEfficiency = Num(100)

\* the matched rows of one customer
CustomerMembers(email) == {i \in MatchedRows : customerData[i].CustomerEmail = email}

\* C19: in every profile row productsBought is the number of matched rows of
\* the customer, totalSpent the sum of their revenue, avgSEI the unweighted
\* mean of the SEI of their products and revenueWeightedSEI the sum of
\* revenue x SEI over totalSpent (NaN when totalSpent is 0), both SEI fields
\* rounded to one decimal.
C19_ProfileRowAggregates ==
    Returned =>
      \A r \in 1..Len(customerProfiles) :
        LET row == customerProfiles[r]
            members == CustomerMembers(row.customerEmail)
            total == SumOverRows(members, RevenueOfRow)
            denominator == SEIDenominator(Len(enrichedProducts))
        IN  /\ members # {}
            /\ row.productsBought = Cardinality(members)
            /\ row.totalSpent = Num(total)
            /\ IsRounded(row.avgSEI, SumOverRows(members, ScaledSEIOfRow),
                         Cardinality(members) * denominator, 10)
            /\ total > 0 =>
                 IsRounded(row.revenueWeightedSEI,
                           SumOverRows(members, RevenueTimesScaledSEIOfRow),
                           total * denominator, 10)
            /\ total = 0 => row.revenueWeightedSEI = NaN

\* a customer who spent 100 on A and 200 on B: mean SEI 100, weighted 88.9
C19_Witness ==
    /\ Returned
    /\ \E r \in 1..Len(customerProfiles) :
         /\ customerProfiles[r].productsBought = 2
         /\ customerProfiles[r].totalSpent = Num(300)
         /\ customerProfiles[r].avgSEI = Num(100)
         /\ customerProfiles[r].revenueWeightedSEI = Fin(889, 10)

\* C20: for a customer whose purchase rows all have the same revenue, 0
\* included, the revenueWeightedSEI of the profile equals its avgSEI.
C20_EqualRevenueWeightsCancel ==
    Returned =>
      \A r \in 1..Len(customerProfiles) :
        (\A i, j \in RowsOf(customerProfiles[r].customerEmail) :
            /\ customerData[i].RevenueGenerated >= 0
            /\ customerData[i].RevenueGenerated = customerData[j].RevenueGenerated)
          => NEq(customerProfiles[r].revenueWeightedSEI, customerProfiles[r].avgSEI)


\* x >= y of JavaScript: false when either side is NaN
NGe(x, y) == x.k # "nan" /\ y.k # "nan" /\ ~NGt(y, x)

\* C21: the profile table is sorted in descending order of
\* revenueWeightedSEI: of two rows the earlier one has a revenueWeightedSEI
\* >= that of the later one, for every input, customers whose total spend is
\* 0 included.
C21_ProfilesSortedDescending ==
    Returned =>
      \A i, j \in 1..Len(customerProfiles) :
        i < j => NGe(customerProfiles[i].revenueWeightedSEI,
                     customerProfiles[j].revenueWeightedSEI)


\* the smallest position in a non-empty set of row positions
FirstOf(positions) == CHOOSE i \in positions : \A j \in positions : i <= j

\* C22: in every profile row ageRange and incomeTier are those of the first
\* row of the customer in input order, also when the rows of the customer
\* disagree on the demographics.
C22_DemographicsOfFirstRow ==
    Returned =>
      \A r \in 1..Len(customerProfiles) :
        LET row == customerProfiles[r]
            first == customerData[FirstOf(RowsOf(row.customerEmail))]
        IN  /\ row.ageRange = first.AgeRange
            /\ row.incomeTier = first.IncomeTier

\* C22, amended: in every profile row ageRange and incomeTier are those of
\* the first row of the customer, in input order, whose product is in the
\* product set, also when the rows of the customer disagree.
C22_DemographicsOfFirstMatchedRow ==
    Returned =>
      \A r \in 1..Len(customerProfiles) :
        LET row == customerProfiles[r]
            first == customerData[FirstOf(CustomerMembers(row.customerEmail))]
        IN  /\ row.ageRange = first.AgeRange
            /\ row.incomeTier = first.IncomeTier

\* a customer whose rows carry three different demographics, the first row
\* without a product match: the profile shows those of the second row
C22_Witness ==
    /\ Returned
    /\ \E r \in 1..Len(customerProfiles) :
         LET rows == RowsOf(customerProfiles[r].customerEmail)
         IN  /\ Cardinality(rows) = 3
             /\ customerData[1].AgeRange = "45-54"
             /\ customerData[2].AgeRange = "35-44"
             /\ customerData[3].AgeRange = "25-34"
             /\ customerProfiles[r].ageRange = "35-44"
             /\ customerProfiles[r].incomeTier = <<76>>


\* the tenths in a number rounded to one decimal
Tenths(x) == x.n * (10 \div x.d)

\* C23: the insight summaries only select from the tables: topSegment is the
\* first and bottomSegment the last row of the segment table,
\* highestEfficiencySegment is the first row whose weightedAvgSEI no row
\* exceeds (undefined when no row has a number there), topAffinity and
\* topCustomer are the first rows of their tables, highEfficiencyPairs counts
\* the rows with combinedEfficiency > 150, multiProductCustomers the profiles
\* with productsBought > 1, and avgCustomerSEI is the unweighted mean of the
\* rounded avgSEI of the profiles.
C23_SummariesSelect ==
    Returned =>
      LET s == insightSummaries.segmentInsights
          a == insightSummaries.affinityInsights
          c == insightSummaries.customerInsights
          numbered == {i \in 1..Len(segmentAnalysis) :
                          segmentAnalysis[i].weightedAvgSEI.k # "nan"}
          maximal == {i \in numbered : \A j \in numbered :
                          ~NGt(segmentAnalysis[j].weightedAvgSEI,
                               segmentAnalysis[i].weightedAvgSEI)}
          finite == \A r \in 1..Len(customerProfiles) :
                          IsFinite(customerProfiles[r].avgSEI)
      IN  /\ segmentAnalysis = <<>> =>
               s.topSegment = Undefined /\ s.bottomSegment = Undefined
          /\ segmentAnalysis # <<>> =>
               /\ s.topSegment = Head(segmentAnalysis)
               /\ s.bottomSegment = segmentAnalysis[Len(segmentAnalysis)]
          /\ numbered = {} => s.highestEfficiencySegment = Undefined
          /\ numbered # {} =>
               s.highestEfficiencySegment = segmentAnalysis[FirstOf(maximal)]
          /\ s.totalSegments = Len(segmentAnalysis)
          /\ affinityAnalysis = <<>> => a.topAffinity = Undefined
          /\ affinityAnalysis # <<>> => a.topAffinity = Head(affinityAnalysis)
          /\ a.totalAffinityPairs = Len(affinityAnalysis)
          /\ a.highEfficiencyPairs =
               Cardinality({r \in 1..Len(affinityAnalysis) :
                   NGt(affinityAnalysis[r].combinedEfficiency, Num(150))})
          /\ customerProfiles = <<>> =>
               c.topCustomer = Undefined /\ c.avgCustomerSEI = NaN
          /\ customerProfiles # <<>> =>
               /\ c.topCustomer = Head(customerProfiles)
               /\ finite =>
                    c.avgCustomerSEI =
                      Fin(SumInts([r \in 1..Len(customerProfiles) |->
                                      Tenths(customerProfiles[r].avgSEI)]),
                          10 * Len(customerProfiles))
               /\ ~finite => ~IsFinite(c.avgCustomerSEI)
          /\ c.multiProductCustomers =
               Cardinality({r \in 1..Len(customerProfiles) :
                   customerProfiles[r].productsBought > 1})
          /\ c.totalCustomers = Len(customerProfiles)

\* the most efficient segment is the last row of the table, not the first,
\* and the mean of the profiles 133.3 and 66.7 is 100
C23_Witness ==
    /\ Returned
    /\ Len(segmentAnalysis) = 2
    /\ insightSummaries.segmentInsights.topSegment = segmentAnalysis[1]
    /\ insightSummaries.segmentInsights.highestEfficiencySegment = segmentAnalysis[2]
    /\ segmentAnalysis[1] # segmentAnalysis[2]
    /\ Len(customerProfiles) = 2
    /\ insightSummaries.customerInsights.avgCustomerSEI = Num(100)


\* two records of the product set share a product name
DuplicateProductNames ==
    \E p, q \in 1..Len(productData) :
       p # q /\ productData[p].ProductName = productData[q].ProductName

\* C24: a product set in which two records share a product name is rejected
\* with a failure result; the joins never pick one of the duplicates.
C24_DuplicateNamesRejected ==
    (Returned /\ DuplicateProductNames) => IsFailure(result)


\* C29: revenue is conserved across the tables derived from the customer
\* rows: the totalRevenue of the segment rows and the totalSpent of the
\* profile rows both add up to the revenue of the customer rows whose product
\* is in the product set, and the productsBought of the profiles add up to
\* the number of those rows.
C29_RevenueConserved ==
    Returned =>
      LET matchedRevenue == SumOverRows(MatchedRows, RevenueOfRow)
      IN  /\ \A r \in 1..Len(segmentAnalysis) :
               IsFinite(segmentAnalysis[r].totalRevenue)
                 /\ segmentAnalysis[r].totalRevenue.d = 1
          /\ \A r \in 1..Len(customerProfiles) :
               IsFinite(customerProfiles[r].totalSpent)
                 /\ customerProfiles[r].totalSpent.d = 1
          /\ SumInts([r \in 1..Len(segmentAnalysis) |->
                         segmentAnalysis[r].totalRevenue.n]) = matchedRevenue
          /\ SumInts([r \in 1..Len(customerProfiles) |->
                         customerProfiles[r].totalSpent.n]) = matchedRevenue
          /\ SumInts([r \in 1..Len(customerProfiles) |->
                         customerProfiles[r].productsBought])
               = Cardinality(MatchedRows)

\* three customer rows, one without a product match; the two matched rows
\* are worth 300, shared by two segments (200 + 100) and two customers
C29_Witness ==
    /\ Returned
    /\ Len(customerData) = 3
    /\ Cardinality(MatchedRows) = 2
    /\ Len(segmentAnalysis) = 2
    /\ Len(customerProfiles) = 2
    /\ SumOverRows(MatchedRows, RevenueOfRow) = 300
    /\ segmentAnalysis[1].totalRevenue = Num(200)
    /\ segmentAnalysis[2].totalRevenue = Num(100)


\* a narrative call for the view ends in this step
CallEnded(view) ==
    \E held \in ResultSets : requests'[<<view, held>>] < requests[<<view, held>>]

\* a narrative call for the view is issued in this step
CallIssued(view) ==
    \E held \in ResultSets : issued'[<<view, held>>] > issued[<<view, held>>]

\* C25: every narrative call that ends, whatever its outcome (success body,
\* success: false body, status that is not ok, network error), leaves the
\* entry of its view out of the loading state, with the generated text or a
\* placeholder.
C25_EndedCallLeavesLoading ==
    [][\A view \in Views :
         CallEnded(view) =>
           /\ tabInsights'[view] # Undefined
           /\ ~tabInsights'[view].loading]_vars

\* C26: for each result set and each view at most one narrative call is
\* issued, across tab changes, renders and runs of the analysis.
C26_OneCallPerViewAndResultSet ==
    \A call \in Views \X ResultSets : issued[call] <= 1

\* C27: a narrative call for one view, issued or ended with any outcome,
\* leaves the result set held and the entries of the other views as they
\* are (the step of handleAnalysis that clears the entries and changes
\* loading apart); and when a run ends in success the result set of the run
\* is held at once, no narrative call for it having ended.
C27_CallsLeaveTablesAndOtherViews ==
    [][/\ \A view \in Views :
            (CallEnded(view) \/ (CallIssued(view) /\ loading' = loading))
              => /\ results' = results
                 /\ \A other \in Views \ {view} :
                      tabInsights'[other] = tabInsights[other]
       /\ (loading /\ ~loading' /\ error' = "")
              => /\ results' = runs
                 /\ results' # NoResults
                 /\ \A view \in Views :
                      \/ tabInsights'[view] = Undefined
                      \/ tabInsights'[view].loading
                      \/ tabInsights'[view].from # results']_vars

\* the call for the first view has ended with the generated text while the
\* call for a second view is in flight, its entry loading, the tables held
C27_Witness ==
    /\ results = 1
    /\ tabInsights["foundational"] =
         [content |-> "insights", loading |-> FALSE, from |-> 1]
    /\ tabInsights["segment"] = [content |-> "", loading |-> TRUE, from |-> 1]
    /\ requests[<<"segment", 1>>] = 1
    /\ requests[<<"foundational", 1>>] = 0

\* C28: while a result set is held, the content of an entry that is not
\* loading comes from a call made with the data of that result set: nothing
\* asked with the data of an earlier run is shown for the result set held.
C28_ContentFromResultsHeld ==
    results # NoResults =>
      \A view \in Views :
        (tabInsights[view] # Undefined /\ ~tabInsights[view].loading)
          => tabInsights[view].from = results

\* C30: a run of handleAnalysis that ends in a failure result or in a thrown
\* error sets the error message, puts loading back to false and leaves the
\* result set held as it is.
C30_FailedRunKeepsResults ==
    [][/\ (AnalysisFails \/ AnalysisThrows)
            => error' # "" /\ loading' = FALSE /\ results' = results
       /\ (loading /\ ~loading' /\ error' # "") => results' = results]_vars

\* the second run failed: its message is shown and the result set of the
\* first run is still held
C30_Witness ==
    /\ runs = 2
    /\ results = 1
    /\ ~loading
    /\ error = "Analysis failed"

====
